---- MODULE Spec2Model ----
(***************************************************************************)
(* The deferred fsync coordinator of src/backend/storage/sync/sync.c:      *)
(* the pending-ops table, the pending-unlinks list, request intake,        *)
(* the checkpoint hooks, the flush pass and the inflight/retry queues.     *)
(***************************************************************************)
EXTENDS Integers, Sequences, FiniteSets, TLC

\* ------------------------------------------------------------------ constants

\* typedef uint16 CycleCtr: the counters live modulo 2^16.
CycleMod == 65536

FSYNCS_PER_ABSORB == 10
UNLINKS_PER_ABSORB == 10

\* for (failures = 0; failures < 5; failures++) RetrySyncRequests(...)
RetryRounds == 5

\* pg_streaming_write_alloc(128, ...): the submission window.
StreamingWindow == 128

\* Assert(inflight_entry->retry_count <= 5)
MaxRetryCount == 5

\* ------------------------------------------------------------------ bounds

\* Requests one AbsorbSyncRequests call inside a pass drains from the queue.
MaxAbsorb == 2
\* Calls of ProcessSyncRequests in one behaviour.
MaxPasses == 2
\* Length of the pending-unlinks list and calls of SyncPreCheckpoint in one
\* behaviour, when it is about the checkpoint hooks alone.
MaxUnlinks == 3
MaxCheckpoints == 3
\* The same, and the calls of ProcessSyncRequests, when it is about unlinks
\* racing with flush passes.
MaxRaceUnlinks == 1
MaxRaceCheckpoints == 2
MaxRacePasses == 1
\* Calls of ProcessSyncRequests when the behaviour is about a long main loop.
MaxBulkPasses == 1
\* Length of the pending-unlinks list when the behaviour is about a long
\* loop of SyncPostCheckpoint, and its calls of SyncPreCheckpoint.
MaxBulkUnlinks == 10
MaxBulkCheckpoints == 1
\* The same when the behaviour is about the filter request.
MaxFilterUnlinks == 2
MaxFilterCheckpoints == 1
\* ForwardSyncRequest finds room in the queue at the latest at this attempt.
MaxForwardTries == 3

\* ------------------------------------------------------------------ file tags

\* FileTag: a handler discriminant plus handler-specific fields.  Two
\* segments of one database, and one SLRU segment handled by pg_xact.
MdSeg0 == [handler |-> "MD", db |-> 1, seg |-> 0]
MdSeg1 == [handler |-> "MD", db |-> 1, seg |-> 1]
ClogSeg == [handler |-> "CLOG", db |-> 1, seg |-> 0]
\* A segment of another database.
MdOther == [handler |-> "MD", db |-> 2, seg |-> 0]

\* The first segment of pg_commit_ts.
CtsSeg1 == [handler |-> "COMMIT_TS", db |-> 0, seg |-> 1]

\* Segments of pg_commit_ts, one short of what makes the main loop absorb.
BulkTags == {[handler |-> "COMMIT_TS", db |-> 0, seg |-> k] : k \in 1..(FSYNCS_PER_ABSORB - 1)}

FileTags == {MdSeg0, MdSeg1, ClogSeg, MdOther} \cup BulkTags

\* An order in which hash_seq_search can return the entries.
ScanRank(t) ==
    CASE t.handler = "COMMIT_TS" -> t.seg
      [] t = MdSeg0 -> FSYNCS_PER_ABSORB
      [] t = MdSeg1 -> FSYNCS_PER_ABSORB + 1
      [] OTHER -> FSYNCS_PER_ABSORB + 2

\* syncsw[]: only the magnetic-disk handler supplies unlink and matches.
HasUnlink(h) == h = "MD"
HasMatches(h) == h = "MD"

\* sync_filetagmatches of the magnetic-disk handler: same database.
FileTagMatches(ftag, candidate) == ftag.db = candidate.db

SyncRequestTypes ==
    {"SYNC_REQUEST", "SYNC_FORGET_REQUEST", "SYNC_FILTER_REQUEST", "SYNC_UNLINK_REQUEST"}

\* The requests a producer can send: fsync and forget for every tag, filter
\* and unlink only against handlers that supply the operation.
Requests ==
    {r \in [ftag : FileTags \ BulkTags, type : SyncRequestTypes] :
        /\ r.type = "SYNC_FILTER_REQUEST" => HasMatches(r.ftag.handler) /\ r.ftag.seg = 0
        /\ r.type = "SYNC_UNLINK_REQUEST" => HasUnlink(r.ftag.handler)}

\* ------------------------------------------------------------------ helpers

\* The increment without the width of CycleCtr.
IncWide(c) == c + 1

\* ++ on a CycleCtr (uint16).
Inc(c) == (c + 1) % CycleMod

Range(s) == {s[i] : i \in 1..Len(s)}

RECURSIVE SelectSeq2(_, _)

\* The elements of s whose tag is not in drop, in order.
SelectSeq2(s, drop) ==
    IF s = <<>> THEN <<>>
    ELSE IF Head(s).tag \in drop THEN SelectSeq2(Tail(s), drop)
         ELSE <<Head(s)>> \o SelectSeq2(Tail(s), drop)

\* The element left on the list.
RemoveAtNone(s, i) == s

\* dlist_delete_from: the list without its i-th element.
RemoveAt(s, i) == SubSeq(s, 1, i - 1) \o SubSeq(s, i + 1, Len(s))

\* hash_search(pendingOps, tag, HASH_REMOVE)
HashRemove(ops, ftag) == [t \in DOMAIN ops \ {ftag} |-> ops[t]]

\* ------------------------------------------------------------------ state

VARIABLES
    pendingOps,            \* FileTag -> [cycle_ctr, canceled], the entries present
    pendingUnlinks,        \* list of [tag, cycle_ctr], with the value of preCalls when queued
    inflightSyncs,         \* list of [tag, retry_count]
    retrySyncs,            \* list of [tag, retry_count]
    sync_cycle_ctr,
    checkpoint_cycle_ctr,
    sync_state,            \* [sync_in_progress, absorb_counter, processed]
    enableFsync,
    data_sync_retry,       \* data_sync_elevel(ERROR) is ERROR when set, PANIC otherwise
    pc,                    \* where the owner process is
    toVisit,               \* entries hash_seq_search has still to return
    failures,              \* index of the retry round
    unlink_absorb_counter, \* absorb_counter of SyncPostCheckpoint
    syncCalls,             \* per tag, sync_syncfiletag invocations of this pass
    fate,                  \* per tag, what this pass did to its entry
    lastCall,              \* the request, handler call or completion of the last step
    sinceForget,           \* per tag, what was remembered since the last matching filter
    nPasses,
    nCheckpoints,
    preCalls,              \* calls of SyncPreCheckpoint so far
    scope,                 \* the requests and bounds this behaviour explores
    backend                \* a process that does not own the table, in RegisterSyncRequest

vars ==
    <<pendingOps, pendingUnlinks, inflightSyncs, retrySyncs, sync_cycle_ctr,
      checkpoint_cycle_ctr, sync_state, enableFsync, data_sync_retry,
      pc, toVisit, failures, unlink_absorb_counter, syncCalls, fate, lastCall,
      sinceForget, nPasses, nCheckpoints, preCalls, scope, backend>>

NoCall == [kind |-> "none"]
\* A process without the table (pendingOps == NULL), outside RegisterSyncRequest.
NoRegistration ==
    [pc |-> "idle", pendingOps |-> "NULL", retryOnError |-> FALSE, ret |-> FALSE, tries |-> 0]
NoEntry == [cycle_ctr |-> 0, canceled |-> FALSE]
NoCalls == [t \in FileTags |-> 0]
NoFate == [t \in FileTags |-> "none"]


\* ------------------------------------------------------------------ request intake

\* RememberSyncRequest, SYNC_FORGET_REQUEST: cancel a previously entered request.
RememberForget(ops, ftag) ==
    IF ftag \in DOMAIN ops THEN [ops EXCEPT ![ftag].canceled = TRUE] ELSE ops

\* The first loop of the filter request left out.
CancelMatchingNone(ops, ftag) == ops

\* The call of sync_filetagmatches left out.
CancelMatchingHandler(ops, ftag) ==
    [t \in DOMAIN ops |->
        IF t.handler = ftag.handler THEN [ops[t] EXCEPT !.canceled = TRUE] ELSE ops[t]]

\* RememberSyncRequest, SYNC_FILTER_REQUEST, first loop: cancel matching fsync requests.
CancelMatching(ops, ftag) ==
    [t \in DOMAIN ops |->
        IF t.handler = ftag.handler /\ FileTagMatches(ftag, t)
        THEN [ops[t] EXCEPT !.canceled = TRUE]
        ELSE ops[t]]

\* RememberSyncRequest, SYNC_FILTER_REQUEST, second loop: remove matching unlink requests.
RemoveMatching(unl, ftag) ==
    SelectSeq(unl, LAMBDA e : ~(e.tag.handler = ftag.handler /\ FileTagMatches(ftag, e.tag)))

\* The entry put at the head of the list.
RememberUnlinkFirst(unl, ftag) ==
    <<[tag |-> ftag, cycle_ctr |-> checkpoint_cycle_ctr, queued |-> preCalls]>> \o unl

\* RememberSyncRequest, SYNC_UNLINK_REQUEST: append to the list.
RememberUnlink(unl, ftag) ==
    Append(unl, [tag |-> ftag, cycle_ctr |-> checkpoint_cycle_ctr, queued |-> preCalls])

\* The entry initialised whether or not it was found.
RememberFsyncAlways(ops, ftag) ==
    [t \in DOMAIN ops \cup {ftag} |->
        IF t = ftag THEN [cycle_ctr |-> sync_cycle_ctr, canceled |-> FALSE] ELSE ops[t]]

\* An entry that was canceled left as it was found.
RememberFsyncKeep(ops, ftag) ==
    IF ftag \notin DOMAIN ops
    THEN [t \in DOMAIN ops \cup {ftag} |->
            IF t = ftag THEN [cycle_ctr |-> sync_cycle_ctr, canceled |-> FALSE] ELSE ops[t]]
    ELSE ops

\* RememberSyncRequest, SYNC_REQUEST: enter the request; a new entry, or one
\* that was canceled, is stamped with the current sync_cycle_ctr.
RememberFsync(ops, ftag) ==
    IF ftag \notin DOMAIN ops \/ ops[ftag].canceled
    THEN [t \in DOMAIN ops \cup {ftag} |->
            IF t = ftag THEN [cycle_ctr |-> sync_cycle_ctr, canceled |-> FALSE] ELSE ops[t]]
    ELSE ops

\* RememberSyncRequest on st = [ops, unl].
RememberSyncRequest(st, ftag, type) ==
    CASE type = "SYNC_FORGET_REQUEST" ->
            [ops |-> RememberForget(st.ops, ftag), unl |-> st.unl]
      [] type = "SYNC_FILTER_REQUEST" ->
            [ops |-> CancelMatching(st.ops, ftag), unl |-> RemoveMatching(st.unl, ftag)]
      [] type = "SYNC_UNLINK_REQUEST" ->
            [ops |-> st.ops, unl |-> RememberUnlink(st.unl, ftag)]
      [] OTHER ->
            [ops |-> RememberFsync(st.ops, ftag), unl |-> st.unl]

\* The producers' record: per tag, "clean" once a matching filter request
\* has been remembered, "dirty" once an fsync request for the tag has been
\* remembered after it.
TrackRequest(since, ftag, type) ==
    [t \in FileTags |->
        IF type = "SYNC_FILTER_REQUEST" /\ t.handler = ftag.handler /\ FileTagMatches(ftag, t)
        THEN "clean"
        ELSE IF type = "SYNC_REQUEST" /\ t = ftag /\ since[t] = "clean"
        THEN "dirty"
        ELSE since[t]]

\* The producers' record when the behaviour is about syncs in flight: "late"
\* for a tag once an fsync request for it has been remembered while its
\* entry was there, not canceled, and its sync submitted and not completed.
TrackLate(st, ftag, type) ==
    [t \in FileTags |->
        IF /\ type = "SYNC_REQUEST"
           /\ t = ftag
           /\ t \in DOMAIN st.ops
           /\ ~st.ops[t].canceled
           /\ \E i \in 1..Len(inflightSyncs) : inflightSyncs[i].tag = t
        THEN "late"
        ELSE st.since[t]]

\* The owner's store with the producers' record, st = [ops, unl, since].
Store == [ops |-> pendingOps, unl |-> pendingUnlinks, since |-> sinceForget]

\* The store after request r has been remembered.
Deliver(st, r) ==
    LET m == RememberSyncRequest([ops |-> st.ops, unl |-> st.unl], r.ftag, r.type) IN
    [ops |-> m.ops, unl |-> m.unl,
     since |-> IF scope.track THEN TrackRequest(st.since, r.ftag, r.type)
               ELSE IF scope.late THEN TrackLate(st, r.ftag, r.type)
               ELSE st.since]

\* A request the behaviour may deliver in store st: within the scope, the
\* list within its bound, and an unlink only after a matching filter when
\* the producers' ordering rule is followed.
Deliverable(st, r) ==
    /\ r \in scope.requests
    /\ r.type = "SYNC_UNLINK_REQUEST" =>
          /\ Len(st.unl) < scope.maxUnlinks
          /\ scope.track => st.since[r.ftag] # "none"

\* The stores one more remembered request leads to from the stores of S.
DeliverOne(S) ==
    S \cup UNION {{Deliver(st, r) : r \in {q \in scope.requests : Deliverable(st, q)}} : st \in S}

RECURSIVE DeliverUpTo(_, _)

DeliverUpTo(S, n) == IF n = 0 THEN S ELSE DeliverUpTo(DeliverOne(S), n - 1)

\* AbsorbSyncRequests: the stores the owner can be left with after draining
\* at most n queued requests, each through RememberSyncRequest, in order.
Absorbed(st, n) == DeliverUpTo({st}, n)

\* ------------------------------------------------------------------ initial state

\* What a behaviour about the flush pass explores: every request but unlink.
PassScope ==
    [requests |-> {r \in Requests : r.type # "SYNC_UNLINK_REQUEST" /\ r.ftag # MdOther},
     maxUnlinks |-> 0, maxCheckpoints |-> 0, maxPasses |-> MaxPasses,
     maxAbsorb |-> MaxAbsorb, window |-> StreamingWindow, ordered |-> FALSE,
     failing |-> FileTags,
     bulk |-> FALSE, track |-> FALSE, log |-> FALSE, late |-> FALSE]

\* What a behaviour about a long main loop explores: a table of ten entries
\* and more, returned by hash_seq_search in ScanRank order, each sync
\* completing before the next is submitted, requests against two segments,
\* whose syncs are the ones that can fail.
BulkScope ==
    [requests |-> {r \in Requests : r.type \in {"SYNC_REQUEST", "SYNC_FORGET_REQUEST"}
                                     /\ r.ftag \in {MdSeg0, MdSeg1}},
     maxUnlinks |-> 0, maxCheckpoints |-> 0, maxPasses |-> MaxBulkPasses,
     maxAbsorb |-> MaxAbsorb, window |-> 1, ordered |-> TRUE,
     failing |-> {MdSeg0, MdSeg1},
     bulk |-> TRUE, track |-> FALSE, log |-> FALSE, late |-> FALSE]

\* What a behaviour about the absorb intervals explores: a long table and a
\* long list, one more fsync request and one more unlink request.
AbsorbScope ==
    [BulkScope EXCEPT !.requests = {[ftag |-> MdSeg0, type |-> "SYNC_REQUEST"],
                                    [ftag |-> MdSeg1, type |-> "SYNC_UNLINK_REQUEST"]},
                      !.failing = {},
                      !.maxUnlinks = MaxBulkUnlinks,
                      !.maxCheckpoints = MaxBulkCheckpoints]

\* What a behaviour about requests for files whose sync is in flight
\* explores: a long table, two syncs in flight at a time, none failing, and
\* fsync requests for the first and the tenth entry of the scan.
LateScope ==
    [BulkScope EXCEPT !.requests = {[ftag |-> MdSeg0, type |-> "SYNC_REQUEST"],
                                    [ftag |-> CtsSeg1, type |-> "SYNC_REQUEST"]},
                      !.failing = {},
                      !.window = 2,
                      !.late = TRUE]

\* What a behaviour about plain flushes explores: fsync requests only and
\* syncs that all succeed, over a short table with completions in any
\* order, or over a long one.
PlainScopes ==
    {[PassScope EXCEPT !.requests = {r \in Requests : r.type = "SYNC_REQUEST"
                                                      /\ r.ftag # MdOther},
                       !.failing = {}],
     [BulkScope EXCEPT !.requests = {r \in Requests : r.type = "SYNC_REQUEST"
                                                       /\ r.ftag \in {MdSeg0, MdSeg1}},
                       !.failing = {}]}

\* What a behaviour about request intake explores: fsync, forget and filter
\* requests against two tags, each registration recorded in lastCall.
IntakeScope ==
    [PassScope EXCEPT !.requests = {r \in Requests : r.type # "SYNC_UNLINK_REQUEST"
                                                      /\ r.ftag \in {MdSeg0, ClogSeg}},
                      !.log = TRUE]

\* What a behaviour about the filter request explores: fsync, unlink and
\* filter requests against two databases and pg_xact, each registration
\* recorded in lastCall.
FilterScope ==
    [requests |-> {r \in Requests : r.type # "SYNC_FORGET_REQUEST" /\ r.ftag # MdSeg1},
     maxUnlinks |-> MaxFilterUnlinks, maxCheckpoints |-> MaxFilterCheckpoints, maxPasses |-> 0,
     maxAbsorb |-> MaxAbsorb, window |-> StreamingWindow, ordered |-> FALSE,
     failing |-> FileTags,
     bulk |-> FALSE, track |-> FALSE, log |-> TRUE, late |-> FALSE]

\* What a behaviour about the two kinds of caller explores: every request
\* for one segment, each registration of the owner recorded in lastCall.
ForwardScope ==
    [FilterScope EXCEPT !.requests = {r \in Requests : r.ftag = MdSeg0}]

\* What a behaviour about the checkpoint hooks explores: unlink and filter
\* requests against the magnetic-disk segments.
HookScope ==
    [requests |-> {r \in Requests : r.type \in {"SYNC_UNLINK_REQUEST", "SYNC_FILTER_REQUEST"}
                                     /\ r.ftag # MdOther},
     maxUnlinks |-> MaxUnlinks, maxCheckpoints |-> MaxCheckpoints, maxPasses |-> 0,
     maxAbsorb |-> MaxAbsorb, window |-> StreamingWindow, ordered |-> FALSE,
     failing |-> FileTags,
     bulk |-> FALSE, track |-> FALSE, log |-> FALSE, late |-> FALSE]

\* What a behaviour about unlinks racing with passes explores: every request
\* against one segment, by producers that send the filter before the unlink.
RaceScope ==
    [requests |-> {r \in Requests : r.ftag = MdSeg0},
     maxUnlinks |-> MaxRaceUnlinks, maxCheckpoints |-> MaxRaceCheckpoints,
     maxPasses |-> MaxRacePasses, maxAbsorb |-> MaxAbsorb, window |-> StreamingWindow,
     ordered |-> FALSE, failing |-> FileTags, bulk |-> FALSE, track |-> TRUE, log |-> FALSE, late |-> FALSE]

\* What a behaviour about the fields of an entry explores: the same and an
\* fsync request for pg_xact, each registration of the owner recorded in
\* lastCall.
FrameScope ==
    [RaceScope EXCEPT !.log = TRUE,
                      !.requests = @ \cup {[ftag |-> ClogSeg, type |-> "SYNC_REQUEST"]},
                      !.failing = {MdSeg0}]

\* InitSync, and the static initialisers of the file.
InitSync ==
    /\ pendingOps = [t \in {} |-> [cycle_ctr |-> 0, canceled |-> FALSE]]
    /\ pendingUnlinks = <<>>
    /\ inflightSyncs = <<>>
    /\ retrySyncs = <<>>
    /\ sync_cycle_ctr = 0
    /\ checkpoint_cycle_ctr = 0
    /\ sync_state = [sync_in_progress |-> FALSE, absorb_counter |-> 0, processed |-> 0]
    /\ enableFsync \in BOOLEAN
    /\ data_sync_retry \in BOOLEAN
    /\ pc = "idle"
    /\ toVisit = {}
    /\ failures = 0
    /\ unlink_absorb_counter = 0
    /\ syncCalls = NoCalls
    /\ fate = NoFate
    /\ lastCall = NoCall
    /\ backend = NoRegistration
    /\ sinceForget = [t \in FileTags |-> "none"]
    /\ nPasses = 0
    /\ nCheckpoints = 0
    /\ preCalls = 0

Init == InitSync /\ scope = PassScope

\* ------------------------------------------------------------------ between passes

passVars == <<inflightSyncs, retrySyncs, sync_cycle_ctr, sync_state,
              toVisit, failures, syncCalls, fate, nPasses>>

hookVars == <<checkpoint_cycle_ctr, unlink_absorb_counter, nCheckpoints, preCalls>>

confVars == <<enableFsync, data_sync_retry, scope, backend>>

\* RegisterSyncRequest in the process that owns the table (pendingOps != NULL):
\* RememberSyncRequest is applied directly.
RegisterSyncRequest(r) ==
    /\ pc = "idle"
    /\ Deliverable(Store, r)
    /\ LET st == Deliver(Store, r) IN
        /\ pendingOps' = st.ops
        /\ pendingUnlinks' = st.unl
        /\ sinceForget' = st.since
    /\ lastCall' = IF scope.log
                   THEN [kind |-> "request", ftag |-> r.ftag, type |-> r.type,
                         found |-> r.ftag \in DOMAIN pendingOps,
                         ret |-> TRUE,
                         pending |-> Len(pendingUnlinks),
                         prior |-> IF r.ftag \in DOMAIN pendingOps
                                   THEN pendingOps[r.ftag] ELSE NoEntry,
                         follows |-> IF lastCall.kind = "request" /\ lastCall.ftag = r.ftag
                                     THEN lastCall.type ELSE "none"]
                   ELSE NoCall
    /\ UNCHANGED <<passVars, checkpoint_cycle_ctr, enableFsync, data_sync_retry, pc,
                   unlink_absorb_counter, nCheckpoints, preCalls, scope, backend>>

\* ForwardSyncRequest(ftag, type): true when the request was queued for the
\* owner, false when the queue had no room.
ForwardSyncRequest(tries) == IF tries + 1 < MaxForwardTries THEN BOOLEAN ELSE {TRUE}

\* The loop left at the first answer.
KeepsTryingNever(ret, retryOnError) == FALSE

\* if (ret || (!ret && !retryOnError)) break; negated: the loop goes on.
KeepsTrying(ret, retryOnError) == ~(ret \/ (~ret /\ ~retryOnError))

\* One turn of the loop of RegisterSyncRequest in a process that does not
\* own the table: ForwardSyncRequest, then break or pg_usleep.
ForwardOnce(b, ret) ==
    [b EXCEPT !.ret = ret,
              !.tries = @ + 1,
              !.pc = IF KeepsTrying(ret, b.retryOnError) THEN "sleep" ELSE "returned"]

\* RegisterSyncRequest(ftag, type, retryOnError) in a process that does not
\* own the table (pendingOps == NULL), up to its return or its first sleep.
RegisterSyncRequestForward(r, retryOnError) ==
    /\ backend.pc = "idle"
    /\ backend.pendingOps = "NULL"
    /\ r \in scope.requests
    /\ \E ret \in ForwardSyncRequest(0) :
          backend' = ForwardOnce([NoRegistration EXCEPT !.retryOnError = retryOnError], ret)
    /\ UNCHANGED <<passVars, pendingOps, pendingUnlinks, sinceForget, lastCall, pc,
                   hookVars, enableFsync, data_sync_retry, scope>>

\* pg_usleep(10000L) is over: the next turn of the loop.
RegisterSyncRequestRetry ==
    /\ backend.pc = "sleep"
    /\ \E ret \in ForwardSyncRequest(backend.tries) : backend' = ForwardOnce(backend, ret)
    /\ UNCHANGED <<passVars, pendingOps, pendingUnlinks, sinceForget, lastCall, pc,
                   hookVars, enableFsync, data_sync_retry, scope>>

\* return ret: the caller has the answer and may register again.
RegisterSyncRequestReturn ==
    /\ backend.pc = "returned"
    /\ backend' = [backend EXCEPT !.pc = "idle"]
    /\ UNCHANGED <<passVars, pendingOps, pendingUnlinks, sinceForget, lastCall, pc,
                   hookVars, enableFsync, data_sync_retry, scope>>

RECURSIVE RememberAll(_, _)

\* RememberSyncRequest(tag, SYNC_REQUEST) for every tag of a set.
RememberAll(ops, tags) ==
    IF tags = {} THEN ops
    ELSE LET t == CHOOSE x \in tags : TRUE IN RememberAll(RememberFsync(ops, t), tags \ {t})

\* RegisterSyncRequest(tag, SYNC_REQUEST) for each of the pg_commit_ts
\* segments, one call after the other.
RegisterSyncRequestRun ==
    /\ pc = "idle"
    /\ scope.bulk
    /\ pendingOps' = RememberAll(pendingOps, BulkTags)
    /\ lastCall' = NoCall
    /\ UNCHANGED <<passVars, pendingUnlinks, sinceForget, hookVars, confVars, pc>>

\* RegisterSyncRequest(tag, SYNC_UNLINK_REQUEST) for one short of
\* UNLINKS_PER_ABSORB files of a dropped relation, one call after the other.
RegisterUnlinkRequestRun ==
    /\ pc = "idle"
    /\ scope.bulk
    /\ Len(pendingUnlinks) + UNLINKS_PER_ABSORB - 1 <= scope.maxUnlinks
    /\ pendingUnlinks' = pendingUnlinks \o
          [k \in 1..(UNLINKS_PER_ABSORB - 1) |-> [tag |-> MdSeg0, cycle_ctr |-> checkpoint_cycle_ctr, queued |-> preCalls]]
    /\ lastCall' = NoCall
    /\ UNCHANGED <<passVars, pendingOps, sinceForget, hookVars, confVars, pc>>

\* The fsync setting is reloaded between passes.
SetEnableFsync ==
    /\ pc = "idle"
    /\ enableFsync' = ~enableFsync
    /\ lastCall' = NoCall
    /\ UNCHANGED <<passVars, pendingOps, pendingUnlinks, checkpoint_cycle_ctr,
                   data_sync_retry, pc, unlink_absorb_counter, sinceForget,
                   nCheckpoints, preCalls, scope, backend>>

\* SyncPreCheckpoint: checkpoint_cycle_ctr++.
SyncPreCheckpoint ==
    /\ pc = "idle"
    /\ nCheckpoints < scope.maxCheckpoints
    /\ checkpoint_cycle_ctr' = Inc(checkpoint_cycle_ctr)
    /\ nCheckpoints' = nCheckpoints + 1
    /\ preCalls' = preCalls + 1
    /\ lastCall' = [kind |-> "pre"]
    /\ UNCHANGED <<passVars, pendingOps, pendingUnlinks, enableFsync, data_sync_retry, pc,
                   unlink_absorb_counter, sinceForget, scope, backend>>

\* CycleMod - 1 calls of SyncPreCheckpoint in a row, nothing else in between
\* (checkpoints that fail before their post-checkpoint work).
SyncPreCheckpointRun ==
    /\ pc = "idle"
    /\ nCheckpoints < scope.maxCheckpoints
    /\ checkpoint_cycle_ctr' = (checkpoint_cycle_ctr + CycleMod - 1) % CycleMod
    /\ nCheckpoints' = nCheckpoints + 1
    /\ preCalls' = preCalls + CycleMod - 1
    /\ lastCall' = [kind |-> "pre"]
    /\ UNCHANGED <<passVars, pendingOps, pendingUnlinks, enableFsync, data_sync_retry, pc,
                   unlink_absorb_counter, sinceForget, scope, backend>>

\* SyncPostCheckpoint, up to its loop.
SyncPostCheckpoint ==
    /\ pc = "idle"
    /\ pc' = "post"
    /\ unlink_absorb_counter' = UNLINKS_PER_ABSORB
    /\ lastCall' = [kind |-> "post"]
    /\ UNCHANGED <<passVars, pendingOps, pendingUnlinks, checkpoint_cycle_ctr, enableFsync,
                   data_sync_retry, sinceForget, nCheckpoints, preCalls, scope, backend>>

\* The countdown to the next absorb never running out.
AbsorbDueNever(counter) == FALSE

\* if (--absorb_counter <= 0): the loop turn that absorbs.
AbsorbDue(counter) == counter - 1 <= 0

\* The results of the handler's unlink: done, file not found, another error.
UnlinkResults == {"ok", "ENOENT", "EACCES"}

\* The entry of a failed unlink kept for the next checkpoint.
AfterUnlinkKeepFailed(unl, res) == IF res = "EACCES" THEN unl ELSE Tail(unl)

\* pendingUnlinks = list_delete_first(pendingUnlinks), after the handler's
\* unlink has returned res: ENOENT is ignored, another error is a WARNING.
AfterUnlink(unl, res) == Tail(unl)

\* The break at new entries left out.
IsNewUnlinkNever(entry) == FALSE

\* The stamps compared for order.
IsNewUnlinkNotOlder(entry) == entry.cycle_ctr >= checkpoint_cycle_ctr

\* if (entry->cycle_ctr == checkpoint_cycle_ctr) break;
IsNewUnlink(entry) == entry.cycle_ctr = checkpoint_cycle_ctr

\* One turn of the loop of SyncPostCheckpoint: leave, or unlink the head
\* entry's file, remove the entry and absorb every UNLINKS_PER_ABSORB turns.
SyncPostCheckpointLoop ==
    /\ pc = "post"
    /\ IF pendingUnlinks = <<>> \/ IsNewUnlink(Head(pendingUnlinks))
       THEN /\ pc' = "idle"
            /\ unlink_absorb_counter' = 0
            /\ lastCall' = [kind |-> "posted"]
            /\ UNCHANGED <<pendingOps, pendingUnlinks, sinceForget>>
       ELSE \E res \in UnlinkResults :
            LET absorb == AbsorbDue(unlink_absorb_counter)
                after == [Store EXCEPT !.unl = AfterUnlink(pendingUnlinks, res)]
            IN  \E st \in (IF absorb THEN Absorbed(after, scope.maxAbsorb) ELSE {after}) :
                    /\ pendingOps' = st.ops
                    /\ pendingUnlinks' = st.unl
                    /\ sinceForget' = st.since
                    /\ unlink_absorb_counter' =
                          IF absorb THEN UNLINKS_PER_ABSORB ELSE unlink_absorb_counter - 1
                    /\ lastCall' = [kind |-> "unlink", ftag |-> Head(pendingUnlinks).tag,
                                    result |-> res, absorbed |-> absorb,
                                    nth |-> IF lastCall.kind = "unlink"
                                            THEN lastCall.nth + 1 ELSE 1]
                    /\ pc' = "post"
    /\ UNCHANGED <<passVars, checkpoint_cycle_ctr, enableFsync, data_sync_retry,
                   nCheckpoints, preCalls, scope, backend>>


\* ------------------------------------------------------------------ the flush pass

\* The check of sync_in_progress left out.
PriorPassFailedNever == FALSE

\* if (sync_state->sync_in_progress) elog(PANIC, ...): the previous pass did
\* not reach its end.
PriorPassFailed == sync_state.sync_in_progress

\* ProcessSyncRequests up to the main loop: absorb, hard abort after a
\* failed pass, reset the statistics, advance sync_cycle_ctr, set the flag,
\* hash_seq_init.
ProcessSyncRequests ==
    /\ pc = "idle"
    /\ nPasses < scope.maxPasses
    /\ nPasses' = nPasses + 1
    /\ \E st \in Absorbed(Store, scope.maxAbsorb) :
        /\ pendingOps' = st.ops
        /\ pendingUnlinks' = st.unl
        /\ sinceForget' = st.since
        /\ IF PriorPassFailed
           THEN /\ pc' = "panic"
                /\ lastCall' = [kind |-> "panic"]
                /\ UNCHANGED <<sync_cycle_ctr, sync_state, toVisit>>
           ELSE /\ sync_state' = [sync_in_progress |-> TRUE,
                                  absorb_counter |-> FSYNCS_PER_ABSORB, processed |-> 0]
                /\ sync_cycle_ctr' = Inc(sync_cycle_ctr)
                /\ toVisit' = DOMAIN st.ops
                /\ pc' = "scan"
                /\ lastCall' = [kind |-> "pass"]
    /\ syncCalls' = NoCalls
    /\ fate' = NoFate
    /\ UNCHANGED <<inflightSyncs, retrySyncs, failures, hookVars, confVars>>

\* CycleMod - 1 calls of ProcessSyncRequests in a row, each finding the table
\* and the request queue empty: only sync_cycle_ctr and the statistics move.
ProcessSyncRequestsRun ==
    /\ pc = "idle"
    /\ nPasses < scope.maxPasses
    /\ ~PriorPassFailed
    /\ DOMAIN pendingOps = {}
    /\ nPasses' = nPasses + 1
    /\ sync_cycle_ctr' = (sync_cycle_ctr + CycleMod - 1) % CycleMod
    /\ sync_state' = [sync_in_progress |-> FALSE,
                      absorb_counter |-> FSYNCS_PER_ABSORB, processed |-> 0]
    /\ lastCall' = [kind |-> "pass"]
    /\ UNCHANGED <<pendingOps, pendingUnlinks, inflightSyncs, retrySyncs, toVisit, failures,
                   syncCalls, fate, sinceForget, pc, hookVars, confVars>>

\* The skip of new entries left out.
IsNewEntryNever(entry) == FALSE

\* if (entry->cycle_ctr == sync_cycle_ctr) continue;
IsNewEntry(entry) == entry.cycle_ctr = sync_cycle_ctr

\* The test of enableFsync inverted.
SkipsSyncInverted(entry) == enableFsync \/ entry.canceled

\* The test of canceled left out.
SkipsSyncOnlyDisabled(entry) == ~enableFsync

\* if (!enableFsync || entry->canceled): remove the entry without I/O.
SkipsSync(entry) == ~enableFsync \/ entry.canceled

\* call_syncfiletag: push onto inflightSyncs and invoke the handler's sync.
CallSyncFileTag(inflight, inflight_entry) == Append(inflight, inflight_entry)

\* hash_seq_search: the entries it can return next.
NextEntries(S) ==
    IF scope.ordered THEN {e \in S : \A x \in S : ScanRank(e) <= ScanRank(x)} ELSE S

\* One turn of the main loop of ProcessSyncRequests.  hash_seq_search returns
\* an entry e; a new one is skipped; for an older one the loop absorbs every
\* FSYNCS_PER_ABSORB turns, then removes the entry or submits its sync.
\* Entries inserted by the absorb may or may not be returned later.
\* (The assertion on cycle_ctr is compiled out of production builds.)
ProcessSyncRequestsLoop ==
    /\ pc = "scan"
    /\ \E e \in NextEntries(toVisit) :
        IF IsNewEntry(pendingOps[e])
        THEN /\ toVisit' = toVisit \ {e}
             /\ lastCall' = [kind |-> "skip", ftag |-> e]
             /\ UNCHANGED <<pendingOps, pendingUnlinks, sinceForget, inflightSyncs,
                            sync_state, syncCalls, fate>>
        ELSE LET absorb == AbsorbDue(sync_state.absorb_counter) IN
             \E st \in (IF absorb THEN Absorbed(Store, scope.maxAbsorb) ELSE {Store}) :
             \E seen \in SUBSET (DOMAIN st.ops \ DOMAIN pendingOps) :
                /\ toVisit' = (toVisit \ {e}) \cup seen
                /\ pendingUnlinks' = st.unl
                /\ sinceForget' = st.since
                /\ sync_state' = [sync_state EXCEPT !.absorb_counter =
                                    IF absorb THEN FSYNCS_PER_ABSORB ELSE @ - 1]
                /\ IF SkipsSync(st.ops[e])
                   THEN /\ pendingOps' = HashRemove(st.ops, e)
                        /\ lastCall' = [kind |-> "remove", ftag |-> e,
                                        canceled |-> st.ops[e].canceled,
                                        before |-> pendingOps[e].canceled,
                                        absorbed |-> absorb]
                        /\ fate' = [fate EXCEPT ![e] =
                                      IF st.ops[e].canceled THEN "removed" ELSE "unsynced"]
                        /\ UNCHANGED <<inflightSyncs, syncCalls>>
                   ELSE /\ Len(inflightSyncs) < scope.window
                        /\ pendingOps' = st.ops
                        /\ inflightSyncs' =
                              CallSyncFileTag(inflightSyncs, [tag |-> e, retry_count |-> 0])
                        /\ lastCall' = [kind |-> "sync", ftag |-> e,
                                        canceled |-> st.ops[e].canceled,
                                        before |-> pendingOps[e].canceled,
                                        absorbed |-> absorb]
                        /\ syncCalls' = [syncCalls EXCEPT ![e] = @ + 1]
                        /\ fate' = [fate EXCEPT ![e] = "inflight1"]
    /\ UNCHANGED <<retrySyncs, sync_cycle_ctr, failures, nPasses, pc,
                   hookVars, confVars>>

\* The results a sync can complete with: success, a file-gone errno, another errno.
SyncResults == {"ok", "ENOENT", "EIO"}

\* Every errno taken for a file that may be gone.
FilePossiblyDeletedAny(err) == TRUE

\* FILE_POSSIBLY_DELETED(errno)
FilePossiblyDeleted(err) == err = "ENOENT"

\* Every failure reported, none retried.
RetryableNever(err, retry_count) == FALSE

\* The test of retry_count left out.
RetryableAgain(err, retry_count) == FilePossiblyDeleted(err)

\* The failure branch of SyncRequestCompleted retries when the file may be
\* gone and this is the first failure; otherwise it reports at data_sync_elevel(ERROR).
Retryable(err, retry_count) == FilePossiblyDeleted(err) /\ retry_count = 0

\* The failed sync dropped instead of queued.
ScheduleRetryLost(retry, ie) == retry

\* inflight_entry->retry_count++; dlist_push_tail(&retrySyncs, ...)
ScheduleRetry(retry, ie) == Append(retry, [ie EXCEPT !.retry_count = @ + 1])

\* An ERROR leaves the pass through the error handler: the owner is back
\* between passes, with whatever the pass left behind.
RaiseERROR ==
    /\ pc' = "idle"
    /\ toVisit' = {}
    /\ failures' = 0
    /\ syncCalls' = NoCalls
    /\ fate' = NoFate

\* SyncRequestCompleted(inflight_entry, success, err), called while a sync
\* is being submitted or awaited, for the i-th inflight sync.
SyncRequestCompleted(i, res) ==
    /\ pc \in {"scan", "retry"}
    /\ i \in 1..Len(inflightSyncs)
    /\ res # "ok" => inflightSyncs[i].tag \in scope.failing
    /\ LET ie == inflightSyncs[i] IN
        /\ inflightSyncs' = RemoveAt(inflightSyncs, i)
        /\ IF res = "ok"
           THEN /\ sync_state' = [sync_state EXCEPT !.processed = @ + 1]
                /\ retrySyncs' = retrySyncs
                /\ IF ie.tag \in DOMAIN pendingOps
                   THEN /\ pendingOps' = HashRemove(pendingOps, ie.tag)
                        /\ lastCall' = [kind |-> "completed", ftag |-> ie.tag,
                                        result |-> res, raised |-> "none", retry_count |-> ie.retry_count]
                        /\ fate' = [fate EXCEPT ![ie.tag] =
                                      IF ie.retry_count = 0 THEN "flushed1" ELSE "flushed2"]
                        /\ UNCHANGED <<pc, toVisit, failures, syncCalls>>
                   ELSE /\ pendingOps' = pendingOps
                        /\ lastCall' = [kind |-> "completed", ftag |-> ie.tag,
                                        result |-> res, raised |-> "ERROR", retry_count |-> ie.retry_count]
                        /\ RaiseERROR
           ELSE IF Retryable(res, ie.retry_count)
           THEN /\ retrySyncs' = ScheduleRetry(retrySyncs, ie)
                /\ lastCall' = [kind |-> "completed", ftag |-> ie.tag,
                                result |-> res, raised |-> "none", retry_count |-> ie.retry_count]
                /\ fate' = [fate EXCEPT ![ie.tag] = "failed1"]
                /\ UNCHANGED <<pendingOps, sync_state, pc, toVisit, failures, syncCalls>>
           ELSE /\ retrySyncs' = retrySyncs
                /\ pendingOps' = pendingOps
                /\ sync_state' = sync_state
                /\ IF data_sync_retry
                   THEN /\ lastCall' = [kind |-> "completed", ftag |-> ie.tag,
                                        result |-> res, raised |-> "ERROR", retry_count |-> ie.retry_count]
                        /\ RaiseERROR
                   ELSE /\ lastCall' = [kind |-> "completed", ftag |-> ie.tag,
                                        result |-> res, raised |-> "PANIC", retry_count |-> ie.retry_count]
                        /\ pc' = "panic"
                        /\ UNCHANGED <<toVisit, failures, syncCalls, fate>>
    /\ UNCHANGED <<pendingUnlinks, sync_cycle_ctr, sinceForget, nPasses,
                   hookVars, confVars>>

\* pg_streaming_write_wait_all returns once every submitted sync has completed.
WaitAll ==
    /\ pc = "scan"
    /\ toVisit = {}
    /\ inflightSyncs = <<>>
    /\ pc' = "retry"
    /\ failures' = 0
    /\ lastCall' = NoCall
    /\ UNCHANGED <<pendingOps, pendingUnlinks, inflightSyncs, retrySyncs, sync_cycle_ctr,
                   sync_state, toVisit, syncCalls, fate, sinceForget,
                   nPasses, hookVars, confVars>>

\* The test of canceled left out.
CanceledRetriesNone(ops, retry) == {}

\* The tags of the retry queue whose entry is found canceled.
CanceledRetries(ops, retry) ==
    {ie.tag : ie \in {x \in Range(retry) : x.tag \in DOMAIN ops /\ ops[x.tag].canceled}}

RECURSIVE CallAll(_, _)

\* call_syncfiletag for every element of a queue, in order.
CallAll(inflight, queue) ==
    IF queue = <<>> THEN inflight
    ELSE CallAll(CallSyncFileTag(inflight, Head(queue)), Tail(queue))

\* The retry round going straight to the queue.
RetryAbsorbNone(st) == [called |-> FALSE, stores |-> {st}]

\* AbsorbSyncRequests() at the head of a retry round, and what it can leave.
RetryAbsorb(st) == [called |-> TRUE, stores |-> Absorbed(st, scope.maxAbsorb)]

\* The index of the retry round not advanced.
AfterRoundSame(round) == round

\* failures++ in the loop around RetrySyncRequests.
AfterRound(round) == round + 1

\* RetrySyncRequests, one call: nothing when the retry queue is empty; else
\* absorb, then pop every element, removing the entry of a canceled one and
\* submitting the others again.
RetrySyncRequests ==
    /\ pc = "retry"
    /\ failures < RetryRounds
    /\ failures' = AfterRound(failures)
    /\ IF retrySyncs = <<>>
       THEN /\ lastCall' = NoCall
            /\ UNCHANGED <<pendingOps, pendingUnlinks, sinceForget, inflightSyncs, retrySyncs,
                           sync_state, syncCalls, fate>>
       ELSE \E st \in RetryAbsorb(Store).stores :
            LET gone == CanceledRetries(st.ops, retrySyncs)
                again == SelectSeq2(retrySyncs, gone)
            IN  /\ pendingOps' = [t \in DOMAIN st.ops \ gone |-> st.ops[t]]
                /\ pendingUnlinks' = st.unl
                /\ sinceForget' = st.since
                /\ inflightSyncs' = CallAll(inflightSyncs, again)
                /\ retrySyncs' = <<>>
                /\ sync_state' = [sync_state EXCEPT !.absorb_counter = FSYNCS_PER_ABSORB]
                /\ syncCalls' = [t \in FileTags |->
                                    IF t \in {ie.tag : ie \in Range(again)}
                                    THEN syncCalls[t] + 1 ELSE syncCalls[t]]
                /\ fate' = [t \in FileTags |->
                                IF t \in gone THEN "dropped"
                                ELSE IF t \in {ie.tag : ie \in Range(again)} THEN "inflight2"
                                ELSE fate[t]]
                /\ lastCall' = [kind |-> "retry", absorbed |-> RetryAbsorb(Store).called,
                                table |-> st.ops]
    /\ UNCHANGED <<sync_cycle_ctr, toVisit, nPasses, pc, hookVars, confVars>>

\* The checks of the queues left out.
QueuesCorruptedNever == FALSE

\* if (!dlist_is_empty(&inflightSyncs)) ... if (!dlist_is_empty(&retrySyncs)) ...
QueuesCorrupted == inflightSyncs # <<>> \/ retrySyncs # <<>>

\* The end of ProcessSyncRequests: PANIC unless both queues are empty, else
\* publish the statistics and clear the flag.
ProcessSyncRequestsEnd ==
    /\ pc = "retry"
    /\ failures = RetryRounds
    /\ IF QueuesCorrupted
       THEN /\ pc' = "panic"
            /\ lastCall' = [kind |-> "panic"]
            /\ UNCHANGED sync_state
       ELSE /\ pc' = "done"
            /\ sync_state' = [sync_state EXCEPT !.sync_in_progress = FALSE]
            /\ lastCall' = [kind |-> "stats", ckpt_sync_rels |-> sync_state.processed]
    /\ UNCHANGED <<pendingOps, pendingUnlinks, inflightSyncs, retrySyncs, sync_cycle_ctr,
                   toVisit, failures, syncCalls, fate, sinceForget, nPasses,
                   hookVars, confVars>>

\* ProcessSyncRequests returns to its caller.
ProcessSyncRequestsReturn ==
    /\ pc = "done"
    /\ pc' = "idle"
    /\ failures' = 0
    /\ syncCalls' = NoCalls
    /\ fate' = NoFate
    /\ lastCall' = NoCall
    /\ UNCHANGED <<pendingOps, pendingUnlinks, inflightSyncs, retrySyncs, sync_cycle_ctr,
                   sync_state, toVisit, sinceForget, nPasses,
                   hookVars, confVars>>

\* ------------------------------------------------------------------ specification

\* The flush pass and the requests that reach it.
Next ==
    \/ \E r \in Requests : RegisterSyncRequest(r)
    \/ SetEnableFsync
    \/ ProcessSyncRequests
    \/ ProcessSyncRequestsRun
    \/ ProcessSyncRequestsLoop
    \/ \E i \in 1..Cardinality(FileTags), res \in SyncResults : SyncRequestCompleted(i, res)
    \/ WaitAll
    \/ RetrySyncRequests
    \/ ProcessSyncRequestsEnd
    \/ ProcessSyncRequestsReturn

Spec == Init /\ [][Next]_vars

\* The flush pass over a long table.
NextBulk ==
    \/ Next
    \/ RegisterSyncRequestRun

InitBulk == InitSync /\ scope = BulkScope

SpecBulk == InitBulk /\ [][NextBulk]_vars

\* Plain flushes.
InitPlain == InitSync /\ scope \in PlainScopes

SpecPlain == InitPlain /\ [][NextBulk]_vars

\* Request intake, one recorded registration at a time.
InitIntake == InitSync /\ scope = IntakeScope

SpecIntake == InitIntake /\ [][Next]_vars

\* The checkpoint hooks and the requests that reach them.
NextHooks ==
    \/ \E r \in Requests : RegisterSyncRequest(r)
    \/ SyncPreCheckpoint
    \/ SyncPreCheckpointRun
    \/ SyncPostCheckpoint
    \/ SyncPostCheckpointLoop

InitHooks == InitSync /\ scope = HookScope

SpecHooks == InitHooks /\ [][NextHooks]_vars

\* Everything the owner process does.
NextRace ==
    \/ Next
    \/ NextHooks

InitRace == InitSync /\ scope = RaceScope

SpecRace == InitRace /\ [][NextRace]_vars

\* Everything the owner process does, the registrations recorded.
InitFrame == InitSync /\ scope = FrameScope

SpecFrame == InitFrame /\ [][NextRace]_vars

\* The owner goes on with a pass it has begun, and every sync submitted
\* completes.
PassFairness ==
    /\ WF_vars(ProcessSyncRequestsLoop)
    /\ WF_vars(\E i \in 1..Cardinality(FileTags), res \in SyncResults : SyncRequestCompleted(i, res))
    /\ WF_vars(WaitAll)
    /\ WF_vars(RetrySyncRequests)
    /\ WF_vars(ProcessSyncRequestsEnd)
    /\ WF_vars(ProcessSyncRequestsReturn)

SpecBulkLive == SpecBulk /\ PassFairness

\* Requests for files whose sync is in flight.
InitLate == InitSync /\ scope = LateScope

SpecLate == InitLate /\ [][NextBulk]_vars

\* The filter request among fsync and unlink requests.
InitFilter == InitSync /\ scope = FilterScope

SpecFilter == InitFilter /\ [][NextHooks]_vars

\* The owner and a process that forwards.
NextForward ==
    \/ \E r \in Requests : RegisterSyncRequest(r)
    \/ \E r \in Requests, retryOnError \in BOOLEAN : RegisterSyncRequestForward(r, retryOnError)
    \/ RegisterSyncRequestRetry
    \/ RegisterSyncRequestReturn

InitForward == InitSync /\ scope = ForwardScope

SpecForward == InitForward /\ [][NextForward]_vars

\* The long table and the long list.
NextAbsorb ==
    \/ NextBulk
    \/ NextHooks
    \/ RegisterUnlinkRequestRun

InitAbsorb == InitSync /\ scope = AbsorbScope

SpecAbsorb == InitAbsorb /\ [][NextAbsorb]_vars

\* ------------------------------------------------------------------ properties

\* What fate records while a sync of this pass is pending for the entry.
Pending == {"inflight1", "failed1", "inflight2"}

\* What fate records once the entry is accounted for by a flush or a cancel.
Settled == {"flushed1", "flushed2", "dropped"}

InPass == pc \in {"scan", "retry"}

\* C1, as stated: when a pass returns normally, every tag whose entry the
\* main loop found eligible and not canceled has been flushed successfully
\* or was found canceled by the retry absorb.
C1_FlushedOrCanceled ==
    pc = "done" =>
        \A T \in FileTags : fate[T] \notin {"none", "removed"} => fate[T] \in Settled

\* C1, amended: the same for a pass that runs with fsync enabled; with fsync
\* disabled the main loop removes the entry without any sync.
C1_FlushedOrCanceledWhenEnabled ==
    (pc = "done" /\ enableFsync) =>
        \A T \in FileTags : fate[T] \notin {"none", "removed"} => fate[T] \in Settled

\* A pass with fsync enabled has returned normally after flushing one entry
\* and dropping another that was canceled while it waited for its retry.
C1_Witness ==
    /\ pc = "done"
    /\ enableFsync
    /\ \E T, U \in FileTags : fate[T] = "dropped" /\ fate[U] = "flushed1"

\* C2, as stated: with producers that deliver the filter request for R before
\* the unlink request for R, SyncPostCheckpoint never calls the handler's
\* unlink for R while the table holds an entry for R that is not canceled.
C2_NoUnlinkWhileUncanceled ==
    [][lastCall'.kind = "unlink" =>
          ~(/\ lastCall'.ftag \in DOMAIN pendingOps
            /\ ~pendingOps[lastCall'.ftag].canceled)]_vars

\* C2, amended: the same when, in addition, no fsync request for R has been
\* remembered after the latest filter request matching R.
C2_NoUnlinkWhileUncanceledUnlessReentered ==
    [][(lastCall'.kind = "unlink" /\ sinceForget[lastCall'.ftag] = "clean") =>
          ~(/\ lastCall'.ftag \in DOMAIN pendingOps
            /\ ~pendingOps[lastCall'.ftag].canceled)]_vars

\* The handler's unlink has just been called for a file whose entry is still
\* in the table, canceled by the filter request that preceded the unlink request.
C2_Witness ==
    /\ lastCall.kind = "unlink"
    /\ lastCall.ftag \in DOMAIN pendingOps
    /\ pendingOps[lastCall.ftag].canceled
    /\ sinceForget[lastCall.ftag] = "clean"

C4_TransientFailureAbsorbed ==
    [][/\ (/\ lastCall'.kind = "completed"
           /\ lastCall'.result = "ENOENT"
           /\ fate[lastCall'.ftag] = "inflight1")
          => /\ lastCall'.raised = "none"
             /\ pc' = pc
             /\ pendingOps' = pendingOps
             /\ \E i \in 1..Len(retrySyncs') : retrySyncs'[i].tag = lastCall'.ftag
       /\ lastCall'.kind = "retry"
          => /\ retrySyncs' = <<>>
             /\ \A T \in FileTags : fate[T] = "failed1" =>
                   \/ /\ fate'[T] = "dropped"
                      /\ T \notin DOMAIN pendingOps'
                      /\ syncCalls'[T] = syncCalls[T]
                   \/ /\ fate'[T] = "inflight2"
                      /\ syncCalls'[T] = syncCalls[T] + 1
                      /\ \E i \in 1..Len(inflightSyncs') : inflightSyncs'[i].tag = T
       /\ pc' = "done"
          => /\ inflightSyncs' = <<>>
             /\ retrySyncs' = <<>>
             /\ \A T \in FileTags :
                   fate'[T] \in {"flushed2", "dropped"} => T \notin DOMAIN pendingOps'
       /\ (/\ pc = "retry"
           /\ failures = RetryRounds
           /\ \A T \in FileTags : fate[T] \notin Pending)
          => pc' = "done"]_vars

\* A pass has returned normally after an entry's first sync failed and its
\* second succeeded.
C4_Witness ==
    /\ pc = "done"
    /\ \E T \in FileTags : fate[T] = "flushed2" /\ syncCalls[T] = 2

\* C5: between passes, every entry's cycle_ctr is sync_cycle_ctr or the value
\* just before it, modulo 2^16.
C5_AtMostOneCycleBehind ==
    pc \in {"idle", "done"} =>
        \A T \in DOMAIN pendingOps :
            pendingOps[T].cycle_ctr \in {sync_cycle_ctr, (sync_cycle_ctr + CycleMod - 1) % CycleMod}

\* Between passes, an entry one cycle behind across the wrap of the counter.
C5_Witness ==
    /\ pc = "idle"
    /\ sync_cycle_ctr = 0
    /\ \E T \in DOMAIN pendingOps : pendingOps[T].cycle_ctr = CycleMod - 1


\* The value of a cycle counter before its latest increment.
Prev(c) == (c + CycleMod - 1) % CycleMod

\* C6, as stated: SyncPostCheckpoint unlinks no entry stamped with the current
\* checkpoint_cycle_ctr, and when it returns no entry stamped with the
\* checkpoint_cycle_ctr of the checkpoint before is left in the list.
C6_DeferredOneCheckpoint ==
    [][/\ lastCall'.kind = "unlink"
          => Head(pendingUnlinks).cycle_ctr # checkpoint_cycle_ctr
       /\ lastCall'.kind = "posted"
          => \A i \in 1..Len(pendingUnlinks') :
                pendingUnlinks'[i].cycle_ctr # Prev(checkpoint_cycle_ctr')]_vars

\* C6, amended: SyncPostCheckpoint unlinks no entry stamped with the current
\* checkpoint_cycle_ctr, and when it returns an entry stamped otherwise is
\* left in the list only behind an entry stamped with the current
\* checkpoint_cycle_ctr.
C6_DeferredUnlessBehindNewLooking ==
    [][/\ lastCall'.kind = "unlink"
          => Head(pendingUnlinks).cycle_ctr # checkpoint_cycle_ctr
       /\ lastCall'.kind = "posted"
          => \A i \in 1..Len(pendingUnlinks') :
                pendingUnlinks'[i].cycle_ctr # checkpoint_cycle_ctr'
                => \E j \in 1..(i - 1) :
                      pendingUnlinks'[j].cycle_ctr = checkpoint_cycle_ctr']_vars

\* SyncPostCheckpoint has returned leaving an entry of the checkpoint before
\* behind an entry that carries the current checkpoint_cycle_ctr.
C6_Witness ==
    /\ lastCall.kind = "posted"
    /\ \E i \in 1..Len(pendingUnlinks) :
          /\ pendingUnlinks[i].cycle_ctr = Prev(checkpoint_cycle_ctr)
          /\ \E j \in 1..(i - 1) : pendingUnlinks[j].cycle_ctr = checkpoint_cycle_ctr

\* C7: an fsync request for a tag whose entry is present and not canceled
\* changes nothing: one entry, with the cycle_ctr it had.
C7_SecondFsyncChangesNothing ==
    (/\ lastCall.kind = "request"
     /\ lastCall.type = "SYNC_REQUEST"
     /\ lastCall.found
     /\ ~lastCall.prior.canceled)
    => /\ lastCall.ftag \in DOMAIN pendingOps
       /\ pendingOps[lastCall.ftag] = lastCall.prior

\* A second fsync request has been registered for an entry stamped before
\* sync_cycle_ctr advanced.
C7_Witness ==
    /\ lastCall.kind = "request"
    /\ lastCall.type = "SYNC_REQUEST"
    /\ lastCall.found
    /\ ~lastCall.prior.canceled
    /\ lastCall.prior.cycle_ctr # sync_cycle_ctr
    /\ pendingOps[lastCall.ftag].cycle_ctr = lastCall.prior.cycle_ctr

\* C8: an fsync request that follows a forget request for the same tag, the
\* tag having an entry, leaves that entry not canceled and stamped with the
\* current sync_cycle_ctr.
C8_FsyncAfterForgetRestamps ==
    (/\ lastCall.kind = "request"
     /\ lastCall.type = "SYNC_REQUEST"
     /\ lastCall.follows = "SYNC_FORGET_REQUEST"
     /\ lastCall.found)
    => /\ lastCall.prior.canceled
       /\ lastCall.ftag \in DOMAIN pendingOps
       /\ pendingOps[lastCall.ftag] = [cycle_ctr |-> sync_cycle_ctr, canceled |-> FALSE]

\* An fsync request has followed a forget request on an entry that was
\* stamped in an earlier cycle.
C8_Witness ==
    /\ lastCall.kind = "request"
    /\ lastCall.type = "SYNC_REQUEST"
    /\ lastCall.follows = "SYNC_FORGET_REQUEST"
    /\ lastCall.found
    /\ lastCall.prior.cycle_ctr # sync_cycle_ctr
    /\ pendingOps[lastCall.ftag].cycle_ctr = sync_cycle_ctr

\* The tags whose entry the main loop of this pass found eligible.
Examined == {T \in FileTags : fate[T] # "none"}

\* C9: with fsync enabled, no cancels and no failures, a pass that returns
\* normally has invoked the sync once for each entry it found, each
\* completed successfully, no entry older than the pass remains, and
\* processed, as published, is the number of those entries.
C9_BasicFlush ==
    (pc = "done" /\ enableFsync) =>
        /\ \A T \in Examined : syncCalls[T] = 1 /\ fate[T] = "flushed1"
        /\ \A T \in FileTags \ Examined : syncCalls[T] = 0
        /\ \A T \in DOMAIN pendingOps : pendingOps[T].cycle_ctr = sync_cycle_ctr
        /\ sync_state.processed = Cardinality(Examined)
        /\ lastCall = [kind |-> "stats", ckpt_sync_rels |-> Cardinality(Examined)]

\* A pass over eleven entries has returned normally with fsync enabled.
C9_Witness ==
    /\ pc = "done"
    /\ enableFsync
    /\ Cardinality(Examined) = FSYNCS_PER_ABSORB + 1
    /\ lastCall.ckpt_sync_rels = FSYNCS_PER_ABSORB + 1

\* C10: when the main loop examines an eligible entry with fsync disabled or
\* the entry canceled, it removes the entry, invokes no sync and leaves
\* processed as it was.
C10_RemovedWithoutSync ==
    [][(/\ lastCall'.kind \in {"remove", "sync"}
        /\ ~enableFsync \/ lastCall'.canceled)
       => /\ lastCall'.kind = "remove"
          /\ lastCall'.ftag \notin DOMAIN pendingOps'
          /\ syncCalls' = syncCalls
          /\ inflightSyncs' = inflightSyncs
          /\ sync_state'.processed = sync_state.processed]_vars

\* The main loop has removed, with fsync enabled, an entry canceled by the
\* absorb of the same turn.
C10_Witness ==
    /\ lastCall.kind = "remove"
    /\ enableFsync
    /\ lastCall.canceled
    /\ ~lastCall.before
    /\ lastCall.ftag \notin DOMAIN pendingOps
    /\ syncCalls[lastCall.ftag] = 0

C12_RetryCountCapped ==
    [][/\ \A i \in 1..Len(inflightSyncs') : inflightSyncs'[i].retry_count <= MaxRetryCount
       /\ \A i \in 1..Len(retrySyncs') : retrySyncs'[i].retry_count <= MaxRetryCount
       /\ (/\ lastCall'.kind = "completed"
           /\ lastCall'.result # "ok"
           /\ lastCall'.retry_count > 0)
          => /\ lastCall'.raised \in {"ERROR", "PANIC"}
             /\ retrySyncs' = retrySyncs]_vars

\* The second sync of an entry has failed with a file-gone errno and the
\* failure was reported.
C12_Witness ==
    /\ lastCall.kind = "completed"
    /\ lastCall.result = "ENOENT"
    /\ lastCall.retry_count = 1
    /\ lastCall.raised # "none"

\* C13: the main loop absorbs in the turn of every FSYNCS_PER_ABSORB-th
\* eligible entry of the pass, and SyncPostCheckpoint absorbs after every
\* UNLINKS_PER_ABSORB-th unlink of the call.
C13_AbsorbInterval ==
    [][/\ (/\ lastCall'.kind \in {"remove", "sync"}
           /\ Cardinality(Examined') % FSYNCS_PER_ABSORB = 0)
          => lastCall'.absorbed
       /\ (/\ lastCall'.kind = "unlink"
           /\ lastCall'.nth % UNLINKS_PER_ABSORB = 0)
          => lastCall'.absorbed]_vars

\* SyncPostCheckpoint has absorbed after its tenth unlink, in a behaviour
\* whose pass flushed ten entries and more.
C13_Witness ==
    /\ lastCall.kind = "unlink"
    /\ lastCall.nth = UNLINKS_PER_ABSORB
    /\ lastCall.absorbed
    /\ sync_state.processed >= FSYNCS_PER_ABSORB

\* C14: when ProcessSyncRequests is entered with sync_in_progress set, the
\* pass goes on to its main loop with sync_cycle_ctr advanced by one and
\* every entry of the table eligible, its cycle_ctr being the sync_cycle_ctr
\* from before the advance.
C14_StaleCountersReset ==
    [][(/\ pc = "idle"
        /\ sync_state.sync_in_progress
        /\ lastCall'.kind \in {"pass", "panic"})
       => /\ pc' = "scan"
          /\ sync_cycle_ctr' = Inc(sync_cycle_ctr)
          /\ \A T \in DOMAIN pendingOps' : pendingOps'[T].cycle_ctr = sync_cycle_ctr]_vars

\* C15: a sync that fails with another errno than file-gone, or with a
\* file-gone errno after an earlier failure, is reported at
\* data_sync_elevel(ERROR) and put on no queue; at ERROR the pass is left with
\* the table as it was, the entry of the tag in it, and sync_in_progress set.
C15_PersistentFailureEscalates ==
    [][(/\ lastCall'.kind = "completed"
        /\ lastCall'.result # "ok"
        /\ lastCall'.result # "ENOENT" \/ lastCall'.retry_count > 0)
       => /\ lastCall'.raised = IF data_sync_retry THEN "ERROR" ELSE "PANIC"
          /\ retrySyncs' = retrySyncs
          /\ \A i \in 1..Len(inflightSyncs') : inflightSyncs'[i].tag # lastCall'.ftag
          /\ lastCall'.raised = "PANIC" => pc' = "panic"
          /\ lastCall'.raised = "ERROR"
             => /\ pc' = "idle"
                /\ lastCall'.ftag \in DOMAIN pendingOps'
                /\ pendingOps' = pendingOps
                /\ sync_state'.sync_in_progress]_vars

\* A first sync has failed with an I/O error reported at ERROR: the owner is
\* between passes, the entry is still in the table, the flag is still set.
C15_Witness ==
    /\ lastCall.kind = "completed"
    /\ lastCall.result = "EIO"
    /\ lastCall.retry_count = 0
    /\ lastCall.raised = "ERROR"
    /\ pc = "idle"
    /\ lastCall.ftag \in DOMAIN pendingOps
    /\ ~pendingOps[lastCall.ftag].canceled
    /\ sync_state.sync_in_progress

\* C16: a filter request P cancels the entries of P's handler that match P and
\* no other, removes from the list the entries of P's handler that match P
\* and keeps the others in their order, and leaves the set of entries, every
\* cycle_ctr and both counters as they were.
C16_FilterFrame ==
    [][(lastCall'.kind = "request" /\ lastCall'.type = "SYNC_FILTER_REQUEST")
       => LET P == lastCall'.ftag
              Matching(t) == t.handler = P.handler /\ FileTagMatches(P, t)
          IN  /\ DOMAIN pendingOps' = DOMAIN pendingOps
              /\ \A T \in DOMAIN pendingOps :
                    /\ pendingOps'[T].cycle_ctr = pendingOps[T].cycle_ctr
                    /\ pendingOps'[T].canceled = (pendingOps[T].canceled \/ Matching(T))
              /\ pendingUnlinks' = SelectSeq(pendingUnlinks, LAMBDA e : ~Matching(e.tag))
              /\ sync_cycle_ctr' = sync_cycle_ctr
              /\ checkpoint_cycle_ctr' = checkpoint_cycle_ctr]_vars

\* A filter request has canceled the entry of its database and left those of
\* the other database and of pg_xact, and has removed an unlink request from
\* the list and left another.
C16_Witness ==
    /\ lastCall.kind = "request"
    /\ lastCall.type = "SYNC_FILTER_REQUEST"
    /\ lastCall.ftag = MdSeg0
    /\ {MdSeg0, MdOther, ClogSeg} \subseteq DOMAIN pendingOps
    /\ pendingOps[MdSeg0].canceled
    /\ ~pendingOps[MdOther].canceled
    /\ ~pendingOps[ClogSeg].canceled
    /\ pendingUnlinks # <<>>
    /\ Len(pendingUnlinks) < lastCall.pending

C19_QueuesEmptyAtReturn ==
    [][/\ pc' = "done"
          => /\ inflightSyncs' = <<>>
             /\ retrySyncs' = <<>>
             /\ ~sync_state'.sync_in_progress
       /\ (pc = "done" /\ pc' = "idle")
          => /\ inflightSyncs' = <<>>
             /\ retrySyncs' = <<>>
             /\ ~sync_state'.sync_in_progress
       /\ (/\ pc = "retry"
           /\ pc' # "retry"
           /\ lastCall'.kind # "completed")
          => /\ failures = RetryRounds
             /\ IF inflightSyncs # <<>> \/ retrySyncs # <<>>
                THEN /\ pc' = "panic"
                     /\ lastCall'.kind = "panic"
                     /\ sync_state'.sync_in_progress
                ELSE /\ pc' = "done"
                     /\ lastCall'.kind = "stats"]_vars

\* After the fifth retry round a sync submitted again was still in flight,
\* and the pass has ended with a PANIC.
C19_Witness ==
    /\ pc = "panic"
    /\ lastCall.kind = "panic"
    /\ failures = RetryRounds
    /\ inflightSyncs # <<>>
    /\ retrySyncs = <<>>
    /\ sync_state.sync_in_progress

\* C20, as stated: ProcessSyncRequests entered with sync_in_progress set ends
\* with a PANIC and sync_cycle_ctr, the table, the list and both queues as
\* they were at the call.
C20_NothingChangedBeforeAbort ==
    [][(/\ pc = "idle"
        /\ sync_state.sync_in_progress
        /\ lastCall'.kind \in {"pass", "panic"})
       => /\ pc' = "panic"
          /\ sync_cycle_ctr' = sync_cycle_ctr
          /\ pendingOps' = pendingOps
          /\ pendingUnlinks' = pendingUnlinks
          /\ inflightSyncs' = inflightSyncs
          /\ retrySyncs' = retrySyncs]_vars

\* C20, amended: ProcessSyncRequests entered with sync_in_progress set ends with a
\* PANIC: sync_cycle_ctr, the statistics and both queues are as they were,
\* the table and the list are as the absorb at the head of the function
\* left them, with no entry gone and every cycle_ctr as it was or, where an
\* absorbed request has stamped the entry, equal to sync_cycle_ctr; and no
\* step leads from a failed pass to the main loop.
C20_HardAbortAfterFailedPass ==
    [][/\ (/\ pc = "idle"
           /\ sync_state.sync_in_progress
           /\ lastCall'.kind \in {"pass", "panic"})
          => /\ pc' = "panic"
             /\ lastCall'.kind = "panic"
             /\ sync_cycle_ctr' = sync_cycle_ctr
             /\ sync_state' = sync_state
             /\ inflightSyncs' = inflightSyncs
             /\ retrySyncs' = retrySyncs
             /\ \E st \in Absorbed(Store, scope.maxAbsorb) :
                    pendingOps' = st.ops /\ pendingUnlinks' = st.unl
             /\ \A T \in DOMAIN pendingOps :
                    /\ T \in DOMAIN pendingOps'
                    /\ pendingOps'[T].cycle_ctr \in {pendingOps[T].cycle_ctr, sync_cycle_ctr}
       /\ (pc = "idle" /\ sync_state.sync_in_progress) => pc' \in {"idle", "panic"}]_vars

\* A pass has ended with an ERROR, and the next call of ProcessSyncRequests
\* has ended with a PANIC, the entry of the failed sync still in the table.
C20_Witness ==
    /\ pc = "panic"
    /\ lastCall.kind = "panic"
    /\ failures = 0
    /\ nPasses = 2
    /\ sync_state.sync_in_progress
    /\ sync_cycle_ctr = 1
    /\ \E T \in DOMAIN pendingOps :
          ~pendingOps[T].canceled /\ pendingOps[T].cycle_ctr = 0

\* C17: a registration in the owner applies RememberSyncRequest and returns
\* true; a step of RegisterSyncRequest in a process without the table leaves
\* the table and the list alone and that process without a table; it returns
\* false only when the last ForwardSyncRequest failed and retryOnError is
\* false; with retryOnError true a failed ForwardSyncRequest is followed by a
\* sleep and another attempt, and the call returns true.
C17_RegisterOrForward ==
    [][/\ (lastCall'.kind = "request" /\ backend' = backend)
          => /\ lastCall'.ret
             /\ LET st == RememberSyncRequest(Store, lastCall'.ftag, lastCall'.type)
                IN  pendingOps' = st.ops /\ pendingUnlinks' = st.unl
       /\ backend' # backend
          => /\ pendingOps' = pendingOps
             /\ pendingUnlinks' = pendingUnlinks
             /\ backend'.pendingOps = "NULL"
       /\ (backend.pc \in {"idle", "sleep"} /\ backend' # backend)
          => /\ backend'.tries = (IF backend.pc = "idle" THEN 0 ELSE backend.tries) + 1
             /\ backend'.pc = "returned" => (backend'.ret \/ ~backend'.retryOnError)
             /\ (backend'.retryOnError /\ ~backend'.ret) => backend'.pc = "sleep"
             /\ (~backend'.retryOnError \/ backend'.ret) => backend'.pc = "returned"
       /\ (backend.pc = "sleep" /\ backend' # backend)
          => backend'.retryOnError = backend.retryOnError /\ backend.retryOnError]_vars

\* A process without the table has returned true from RegisterSyncRequest
\* with retryOnError after two failed attempts, the owner's table holding
\* an entry all the while.
C17_Witness ==
    /\ backend.pc = "returned"
    /\ backend.retryOnError
    /\ backend.ret
    /\ backend.tries = MaxForwardTries
    /\ pendingOps # << >>
    /\ lastCall.kind = "request"
    /\ lastCall.ret

RECURSIVE IsSubseq(_, _)

\* s is t with some of its elements left out.
IsSubseq(s, t) ==
    IF s = <<>> THEN TRUE
    ELSE IF t = <<>> THEN FALSE
    ELSE IF Head(s) = Head(t) THEN IsSubseq(Tail(s), Tail(t))
    ELSE IsSubseq(s, Tail(t))

\* C22, as stated: the cycle_ctr values along the list of unlink requests,
\* head to tail, never decrease.
C22_StampsNonDecreasing ==
    \A i \in 1..(Len(pendingUnlinks) - 1) :
        pendingUnlinks[i].cycle_ctr <= pendingUnlinks[i + 1].cycle_ctr

\* C22, amended: every step leaves the list as the entries it had, some of
\* them left out and the others in the order they were in, followed by
\* entries stamped with the current checkpoint_cycle_ctr; and a step other
\* than SyncPreCheckpoint leaves checkpoint_cycle_ctr alone.
C22_InsertionOrder ==
    [][/\ \E k \in 0..Len(pendingUnlinks') :
            /\ IsSubseq(SubSeq(pendingUnlinks', 1, k), pendingUnlinks)
            /\ \A i \in (k + 1)..Len(pendingUnlinks') :
                  pendingUnlinks'[i].cycle_ctr = checkpoint_cycle_ctr
       /\ checkpoint_cycle_ctr' # checkpoint_cycle_ctr => pendingUnlinks' = pendingUnlinks]_vars

\* After checkpoint_cycle_ctr has wrapped, an entry stamped 0 is behind an
\* entry stamped CycleMod - 1, which is itself behind an older one.
C22_Witness ==
    /\ Len(pendingUnlinks) = 3
    /\ pendingUnlinks[2].cycle_ctr = CycleMod - 1
    /\ pendingUnlinks[3].cycle_ctr = 0
    /\ checkpoint_cycle_ctr = 0

\* C23: an entry the main loop visits is stamped with sync_cycle_ctr, and is
\* skipped, or with the value before it modulo CycleMod; and
\* sync_cycle_ctr is below CycleMod.
C23_EligibilityAssertion ==
    [][(pc = "scan" /\ lastCall'.kind \in {"skip", "remove", "sync"})
       => LET entry == pendingOps[lastCall'.ftag] IN
          /\ lastCall'.ftag \in DOMAIN pendingOps
          /\ sync_cycle_ctr \in 0..(CycleMod - 1)
          /\ IF entry.cycle_ctr = sync_cycle_ctr
             THEN lastCall'.kind = "skip"
             ELSE /\ lastCall'.kind # "skip"
                  /\ (entry.cycle_ctr + 1) % CycleMod = sync_cycle_ctr]_vars

\* The main loop has submitted the sync of an entry stamped CycleMod - 1 in
\* the pass that took sync_cycle_ctr from CycleMod - 1 to 0.
C23_Witness ==
    /\ pc = "scan"
    /\ lastCall.kind = "sync"
    /\ sync_cycle_ctr = 0
    /\ lastCall.ftag \in DOMAIN pendingOps
    /\ pendingOps[lastCall.ftag].cycle_ctr = CycleMod - 1

\* C24: a turn of SyncPostCheckpoint that invokes the handler's unlink does
\* so for the head entry and, whatever the result, leaves the list without
\* that entry: the tail as it was, or, when the turn absorbs, what
\* registrations make of the tail.
C24_UnlinkedEntryRemoved ==
    [][lastCall'.kind = "unlink"
       => /\ pendingUnlinks # <<>>
          /\ lastCall'.ftag = Head(pendingUnlinks).tag
          /\ lastCall'.result \in UnlinkResults
          /\ ~lastCall'.absorbed => pendingUnlinks' = Tail(pendingUnlinks)
          /\ \E k \in 0..Len(pendingUnlinks') :
                /\ IsSubseq(SubSeq(pendingUnlinks', 1, k), Tail(pendingUnlinks))
                /\ \A i \in (k + 1)..Len(pendingUnlinks') :
                      pendingUnlinks'[i].cycle_ctr = checkpoint_cycle_ctr]_vars

\* The unlink of a file has failed with an error that is not file-not-found,
\* and the list holds other entries but none for that file.
C24_Witness ==
    /\ lastCall.kind = "unlink"
    /\ lastCall.result = "EACCES"
    /\ pendingUnlinks # <<>>
    /\ \A i \in 1..Len(pendingUnlinks) : pendingUnlinks[i].tag # lastCall.ftag

\* C25: checkpoint_cycle_ctr and the stamp of an entry are the number of
\* calls of SyncPreCheckpoint, now and when the entry was queued, modulo
\* CycleMod; a turn of SyncPostCheckpoint that finds at the head an entry
\* queued a multiple of CycleMod calls ago returns and leaves the list as it
\* is, any other turn unlinks the head entry; and an entry unlinked was
\* queued before the latest call of SyncPreCheckpoint.
C25_WrapOnlyDelays ==
    [][/\ checkpoint_cycle_ctr = preCalls % CycleMod
       /\ \A i \in 1..Len(pendingUnlinks) :
             /\ pendingUnlinks[i].queued <= preCalls
             /\ pendingUnlinks[i].cycle_ctr = pendingUnlinks[i].queued % CycleMod
       /\ (pc = "post" /\ pendingUnlinks # <<>> /\ vars' # vars)
          => IF (preCalls - Head(pendingUnlinks).queued) % CycleMod = 0
             THEN /\ lastCall'.kind = "posted"
                  /\ pendingUnlinks' = pendingUnlinks
             ELSE /\ lastCall'.kind = "unlink"
                  /\ lastCall'.ftag = Head(pendingUnlinks).tag
       /\ lastCall'.kind = "unlink"
          => /\ Head(pendingUnlinks).queued < preCalls
             /\ \A i \in 1..Len(pendingUnlinks) :
                   pendingUnlinks[i].queued = preCalls
                   => \E j \in 1..Len(pendingUnlinks') :
                         pendingUnlinks'[j] = pendingUnlinks[i]]_vars

\* SyncPostCheckpoint has returned leaving at the head an entry queued
\* CycleMod calls of SyncPreCheckpoint ago.
C25_Witness ==
    /\ lastCall.kind = "posted"
    /\ pendingUnlinks # <<>>
    /\ Head(pendingUnlinks).queued + CycleMod = preCalls
    /\ Head(pendingUnlinks).cycle_ctr = checkpoint_cycle_ctr

\* C26: when a pass is about to return, a tag for which an fsync request was
\* remembered while its entry was there, not canceled, and its sync in
\* flight, has an entry in the table, or has had a sync submitted after the
\* request (the second of the pass).
C26_LateFsyncNotLost ==
    pc = "done"
    => \A T \in FileTags :
          sinceForget[T] = "late"
          => \/ T \in DOMAIN pendingOps
             \/ syncCalls[T] = 2

\* The InflightSyncs on the two queues, the inflight queue first.
Queued == inflightSyncs \o retrySyncs

\* C27: no two places of the two queues hold an InflightSync of the same
\* tag, and the tag of every InflightSync on a queue has its entry in the
\* table.
C27_QueuesConsistent ==
    /\ \A i, j \in 1..Len(Queued) : Queued[i].tag = Queued[j].tag => i = j
    /\ \A i \in 1..Len(Queued) : Queued[i].tag \in DOMAIN pendingOps

\* Two syncs are in flight and a third, which has failed, awaits its retry,
\* each with its entry in the table.
C27_Witness ==
    /\ pc = "scan"
    /\ Len(inflightSyncs) = 2
    /\ Len(retrySyncs) = 1
    /\ retrySyncs[1].retry_count = 1
    /\ {Queued[i].tag : i \in 1..Len(Queued)} = DOMAIN pendingOps
    /\ Cardinality(DOMAIN pendingOps) = 3

\* C28: in a pass the handler's sync is invoked at most twice for a tag, at
\* most once of them by the retry rounds; no InflightSync has a retry_count
\* above 1; and from the end of the first retry round on the retry queue is
\* empty and no sync is invoked.
C28_AtMostTwoSyncs ==
    [][/\ \A T \in FileTags :
             /\ syncCalls'[T] <= 2
             /\ (pc = "retry" /\ syncCalls'[T] > syncCalls[T])
                => /\ failures = 0
                   /\ syncCalls[T] = 1
                   /\ syncCalls'[T] = 2
       /\ \A i \in 1..Len(Queued') : Queued'[i].retry_count <= 1
       /\ (pc' = "retry" /\ failures' >= 1) => retrySyncs' = <<>>
       /\ (pc = "retry" /\ failures >= 1) => inflightSyncs' \in {inflightSyncs} \cup
                                                {RemoveAt(inflightSyncs, i) : i \in 1..Len(inflightSyncs)}]_vars

\* The second retry round is over, and the sync that the first one submitted
\* again, the second for its tag, is still in flight.
C28_Witness ==
    /\ pc = "retry"
    /\ failures = 2
    /\ retrySyncs = <<>>
    /\ \E T \in FileTags :
          /\ syncCalls[T] = 2
          /\ inflightSyncs = <<[tag |-> T, retry_count |-> 1]>>

\* C29: a pass that has begun ends: it returns, or leaves with an ERROR or a
\* PANIC.
C29_PassEnds == InPass ~> ~InPass

\* A pass over ten entries and more is about to return, and the table holds
\* an entry that an absorb of the pass has stamped with the new
\* sync_cycle_ctr.
C29_Witness ==
    /\ pc = "done"
    /\ lastCall.kind = "stats"
    /\ lastCall.ckpt_sync_rels >= FSYNCS_PER_ABSORB
    /\ \E T \in DOMAIN pendingOps : pendingOps[T].cycle_ctr = sync_cycle_ctr

====
